---- MODULE Spec2Model ----
(***************************************************************************)
(* Model of createSequentialEffectRunner (src/unnamed/part_002) as used by *)
(* useSequentialEffect (src/unnamed/part_001).                             *)
(*                                                                         *)
(* The runner is a closure over four variables (lastEffect, stopRequested, *)
(* currentCleanup, isLooping) and exposes run(effect) and stop().  loop()  *)
(* is an async function: it executes synchronously inside the caller up to *)
(* its first `await`, then resumes when the awaited body settles.  The     *)
(* `.finally` callback of ensureLoop runs in a later microtask than the    *)
(* loop's return.  Calls to run/stop may arrive at any suspension point.   *)
(***************************************************************************)
EXTENDS Integers, Sequences, FiniteSets, TLC

\* Bound on the number of run()/stop() calls the environment makes.
MaxCalls == 3

VARIABLES
    lastEffect,      \* part_002:7   the pending effect, or NoEffect (null)
    stopRequested,   \* part_002:8
    currentCleanup,  \* part_002:9   the stored cleanup, or NoCleanup (undefined)
    isLooping,       \* part_002:11
    loops,           \* the activations of loop(): position and locals of each
    hist,            \* observation: calls made, bodies invoked/settled and
                     \* completion callbacks run, in order
    errors           \* observation: what console.error received, in order

vars == <<lastEffect, stopRequested, currentCleanup, isLooping, loops, hist, errors>>

----------------------------------------------------------------------------
(* Values *)

\* An Effect is identified by the number of the run() call that submitted it;
\* `throws` says whether its body throws synchronously when invoked (instead
\* of returning a value or a promise).
NoEffect == [id |-> 0, throws |-> FALSE]
Effect(t, th) == [id |-> t, throws |-> th]

\* A Cleanup is identified by the effect whose setup returned it.
NoCleanup == [id |-> 0, throws |-> FALSE]
Cleanup(t, th) == [id |-> t, throws |-> th]

\* What an awaited setup can settle to (part_002:62-68).
SetupOutcomes == {"cleanup", "none", "fail"}

\* One activation of loop(): pc is where it is suspended,
\*   "awaitCleanup" (line 50), "awaitSetup" (line 62),
\*   "finished" (returned, .finally callback not yet run), "done".
NewFrame == [pc |-> "start", shouldStop |-> FALSE, next |-> NoEffect, fn |-> NoCleanup]

Event(e, t, r) == [ev |-> e, id |-> t, res |-> r]

\* The runner's whole state as one record, so that the synchronous pieces of
\* the code can be written as functions from state to state.
St == [lastEffect |-> lastEffect, stopRequested |-> stopRequested,
       currentCleanup |-> currentCleanup, isLooping |-> isLooping,
       loops |-> loops, hist |-> hist, errors |-> errors]

Install(s) ==
    /\ lastEffect' = s.lastEffect
    /\ stopRequested' = s.stopRequested
    /\ currentCleanup' = s.currentCleanup
    /\ isLooping' = s.isLooping
    /\ loops' = s.loops
    /\ hist' = s.hist
    /\ errors' = s.errors

Observe(s, e) == [s EXCEPT !.hist = Append(@, e)]

----------------------------------------------------------------------------
(* The code of loop(), part_002:36-71 *)

\* catch (e) { console.error(e); }   part_002:51-53 and 66-68
ReportErrorM(s, kind, t) == s
ReportError(s, kind, t) == [s EXCEPT !.errors = Append(@, [kind |-> kind, id |-> t])]

\* if (!shouldStop && next == null) break;   part_002:41
ShouldBreak(shouldStop, next) == ~shouldStop /\ next = NoEffect

\* if (currentCleanup)   part_002:46
HasCleanupM(s, l) == s.currentCleanup # NoCleanup /\ s.loops[l].shouldStop
HasCleanup(s, l) == s.currentCleanup # NoCleanup

\* const fn = currentCleanup; currentCleanup = undefined;   part_002:47-48
TakeCleanupM(s, l) == [s EXCEPT !.loops[l].fn = s.currentCleanup]
TakeCleanup(s, l) ==
    [s EXCEPT !.loops[l].fn = s.currentCleanup, !.currentCleanup = NoCleanup]

\* const maybeCleanup = await next();
\* if (typeof maybeCleanup === "function") currentCleanup = maybeCleanup;
\* part_002:62-65; a rejected await leaves the try block before the assignment
StoreCleanupM(s, outcome, c) ==
    IF outcome # "none" THEN [s EXCEPT !.currentCleanup = c] ELSE s
StoreCleanup(s, outcome, c) ==
    IF outcome = "cleanup" THEN [s EXCEPT !.currentCleanup = c] ELSE s

RECURSIVE LoopTop(_, _)
RECURSIVE AfterCleanup(_, _)

\* part_002:60-69 up to the await: invoke next(); a synchronous throw is
\* caught at once and the loop goes round again, otherwise the loop suspends.
SetupPhase(s, l) ==
    LET next == s.loops[l].next
        s1 == Observe(s, Event("setup", next.id, "-"))
    IN  IF next = NoEffect THEN LoopTop(s, l)
        ELSE IF next.throws
        THEN LoopTop(ReportError(Observe(s1, Event("setupDone", next.id, "fail")),
                                 "setup", next.id), l)
        ELSE [s1 EXCEPT !.loops[l].pc = "awaitSetup"]

\* part_002:56-58: if (shouldStop) continue;
AfterCleanup(s, l) ==
    IF s.loops[l].shouldStop THEN LoopTop(s, l) ELSE SetupPhase(s, l)

\* part_002:46-54 up to the await: take the stored cleanup and invoke it.
CleanupPhase(s, l) ==
    IF HasCleanup(s, l)
    THEN LET s1 == TakeCleanup(s, l)
             fn == s1.loops[l].fn
             s2 == Observe(s1, Event("cleanup", fn.id, "-"))
         IN  IF fn.throws
             THEN AfterCleanup(ReportError(Observe(s2, Event("cleanupDone", fn.id, "fail")),
                                           "cleanup", fn.id), l)
             ELSE [s2 EXCEPT !.loops[l].pc = "awaitCleanup"]
    ELSE AfterCleanup(s, l)

\* part_002:37-44: the head of an iteration: snapshot, exit test, clear.
LoopTop(s, l) ==
    LET shouldStop == s.stopRequested
        next == s.lastEffect
    IN  IF ShouldBreak(shouldStop, next)
        THEN [s EXCEPT !.loops[l].pc = "finished"]
        ELSE CleanupPhase([s EXCEPT !.loops[l].shouldStop = shouldStop,
                                    !.loops[l].next = next,
                                    !.stopRequested = FALSE,
                                    !.lastEffect = NoEffect], l)

\* if (isLooping) return;   part_002:26
LoopGuardM(s) == FALSE
LoopGuard(s) == s.isLooping

\* part_002:25-34: ensureLoop() without the body of the .finally callback,
\* which runs later (LoopFinally).  loop() runs synchronously to its first await.
EnsureLoopM(s) ==
    IF LoopGuard(s) THEN s
    ELSE LoopTop([s EXCEPT !.loops = Append(@, NewFrame)], Len(s.loops) + 1)
EnsureLoop(s) ==
    IF LoopGuard(s) THEN s
    ELSE LoopTop([s EXCEPT !.isLooping = TRUE, !.loops = Append(@, NewFrame)],
                 Len(s.loops) + 1)

\* part_002:28-33: the .finally callback.
FinallyStopOnly(s, l) ==
    LET s1 == [Observe(s, Event("finally", 0, "-")) EXCEPT
                    !.isLooping = FALSE, !.loops[l].pc = "done"]
    IN  IF s1.stopRequested THEN EnsureLoop(s1) ELSE s1
FinallyEffectOnly(s, l) ==
    LET s1 == [Observe(s, Event("finally", 0, "-")) EXCEPT
                    !.isLooping = FALSE, !.loops[l].pc = "done"]
    IN  IF s1.lastEffect # NoEffect THEN EnsureLoop(s1) ELSE s1
Finally(s, l) ==
    LET s1 == [Observe(s, Event("finally", 0, "-")) EXCEPT
                    !.isLooping = FALSE, !.loops[l].pc = "done"]
    IN  IF s1.stopRequested \/ s1.lastEffect # NoEffect THEN EnsureLoop(s1) ELSE s1

\* part_002:13-17
RunCallNoClear(s, effect) ==
    EnsureLoop([Observe(s, Event("run", effect.id, "-")) EXCEPT !.lastEffect = effect])
RunCallKeepFirst(s, effect) ==
    EnsureLoop([Observe(s, Event("run", effect.id, "-")) EXCEPT
                    !.lastEffect = IF s.lastEffect # NoEffect THEN s.lastEffect ELSE effect,
                    !.stopRequested = FALSE])
RunCallM(s, effect) ==
    [Observe(s, Event("run", effect.id, "-")) EXCEPT
        !.lastEffect = effect, !.stopRequested = FALSE]
RunCall(s, effect) ==
    EnsureLoop([Observe(s, Event("run", effect.id, "-")) EXCEPT
                    !.lastEffect = effect, !.stopRequested = FALSE])

\* part_002:19-23
StopCallM(s) ==
    [Observe(s, Event("stop", 0, "-")) EXCEPT
        !.lastEffect = NoEffect, !.stopRequested = TRUE]
StopCall(s) ==
    EnsureLoop([Observe(s, Event("stop", 0, "-")) EXCEPT
                    !.lastEffect = NoEffect, !.stopRequested = TRUE])

\* part_002:62-69 from the await on: the awaited setup settled.
ResumeSetup(s, l, outcome, c) ==
    LET t == s.loops[l].next.id
        s1 == Observe(s, Event("setupDone", t, outcome))
        s2 == StoreCleanup(s1, outcome, c)
        s3 == IF outcome = "fail" THEN ReportError(s2, "setup", t) ELSE s2
    IN  LoopTop(s3, l)

\* part_002:50-58 from the await on: the awaited cleanup settled.
ResumeCleanupM(s, l, ok) ==
    LET t == s.loops[l].fn.id
        s1 == Observe(s, Event("cleanupDone", t, IF ok THEN "ok" ELSE "fail"))
    IN  IF ok THEN AfterCleanup(s1, l)
        ELSE [ReportError(s1, "cleanup", t) EXCEPT !.loops[l].pc = "finished"]
ResumeCleanup(s, l, ok) ==
    LET t == s.loops[l].fn.id
        s1 == Observe(s, Event("cleanupDone", t, IF ok THEN "ok" ELSE "fail"))
        s2 == IF ok THEN s1 ELSE ReportError(s1, "cleanup", t)
    IN  AfterCleanup(s2, l)

----------------------------------------------------------------------------
(* Observations derived from hist *)

Idx == 1..Len(hist)
IsCall(e) == e.ev \in {"run", "stop"}
NumCalls == Cardinality({i \in Idx : IsCall(hist[i])})
NumRuns == Cardinality({i \in Idx : hist[i].ev = "run"})
Started == {hist[i].id : i \in {j \in Idx : hist[j].ev = "setup"}}
Live == {l \in 1..Len(loops) : loops[l].pc # "done"}

----------------------------------------------------------------------------
(* Actions *)

Init ==
    /\ lastEffect = NoEffect
    /\ stopRequested = FALSE
    /\ currentCleanup = NoCleanup
    /\ isLooping = FALSE
    /\ loops = <<>>
    /\ hist = <<>>
    /\ errors = <<>>

\* The host calls run(effect) with a new effect.
Run ==
    /\ NumCalls < MaxCalls
    /\ \E th \in BOOLEAN : Install(RunCall(St, Effect(NumRuns + 1, th)))

\* The host calls stop().
Stop ==
    /\ NumCalls < MaxCalls
    /\ Install(StopCall(St))

\* The setup a loop is awaiting settles and the loop resumes.
SetupSettles ==
    \E l \in 1..Len(loops) :
        /\ loops[l].pc = "awaitSetup"
        /\ \E outcome \in SetupOutcomes, th \in BOOLEAN :
            /\ outcome # "cleanup" => ~th
            /\ Install(ResumeSetup(St, l, outcome, Cleanup(loops[l].next.id, th)))

\* The cleanup a loop is awaiting settles and the loop resumes.
CleanupSettles ==
    \E l \in 1..Len(loops) :
        /\ loops[l].pc = "awaitCleanup"
        /\ \E ok \in BOOLEAN : Install(ResumeCleanup(St, l, ok))

\* The .finally callback of a loop that returned runs.
LoopFinally ==
    \E l \in 1..Len(loops) :
        /\ loops[l].pc = "finished"
        /\ Install(Finally(St, l))

LoopStep == SetupSettles \/ CleanupSettles \/ LoopFinally

Next == Run \/ Stop \/ SetupSettles \/ CleanupSettles \/ LoopFinally

Spec == Init /\ [][Next]_vars

\* Every invoked body eventually settles and the microtask queue is drained.
FairSpec == Spec /\ WF_vars(SetupSettles) /\ WF_vars(CleanupSettles) /\ WF_vars(LoopFinally)

----------------------------------------------------------------------------
(* Vocabulary for the properties *)

IsBody(e) == e.ev \in {"setup", "cleanup"}
IsFailure(e) == e.ev \in {"setupDone", "cleanupDone"} /\ e.res = "fail"
Calls == SelectSeq(hist, IsCall)
Bodies == SelectSeq(hist, IsBody)
Failures == SelectSeq(hist, IsFailure)

\* The most recent call was `e` (of effect t; t = 0 for stop).
LastCallIs(e, t) ==
    /\ Len(Calls) > 0
    /\ Calls[Len(Calls)].ev = e
    /\ Calls[Len(Calls)].id = t

\* Bodies invoked and not yet settled.
InFlight ==
    {i \in Idx : /\ IsBody(hist[i])
                 /\ ~\E k \in i+1..Len(hist) :
                        /\ hist[k].id = hist[i].id
                        /\ hist[k].ev = (IF hist[i].ev = "setup" THEN "setupDone"
                                                                 ELSE "cleanupDone")}

\* Effects whose setup fulfilled with a cleanup / whose cleanup was invoked.
ReturnedCleanup == {hist[i].id : i \in {j \in Idx : hist[j].ev = "setupDone" /\ hist[j].res = "cleanup"}}
CleanedUp == {hist[i].id : i \in {j \in Idx : hist[j].ev = "cleanup"}}
SetupFailed == {hist[i].id : i \in {j \in Idx : hist[j].ev = "setupDone" /\ hist[j].res = "fail"}}

\* No loop is running or waiting for its completion callback.
Quiescent == ~isLooping /\ Live = {}

----------------------------------------------------------------------------
\* C1 (cleanup gating): once the setup of T has completed returning a
\* cleanup, no setup of any effect is invoked before T's cleanup has settled.
CleanupGating ==
    \A i \in Idx :
        (hist[i].ev = "setupDone" /\ hist[i].res = "cleanup") =>
            \A j \in i+1..Len(hist) :
                hist[j].ev = "setup" =>
                    \E k \in i+1..j-1 :
                        hist[k].ev = "cleanupDone" /\ hist[k].id = hist[i].id

\* An effect was submitted while the previous cleanup was pending, and its
\* setup was invoked after that cleanup settled.
CleanupGatingWitness ==
    \E c, r, k, j \in Idx :
        /\ c < r /\ r < k /\ k < j
        /\ hist[c].ev = "cleanup"
        /\ hist[r].ev = "run"
        /\ hist[k].ev = "cleanupDone" /\ hist[k].id = hist[c].id
        /\ hist[j].ev = "setup" /\ hist[j].id = hist[r].id

\* C2 (latest wins): whenever a setup is invoked, its effect is the most
\* recently submitted one at that moment (no later run() precedes the
\* invocation).
LatestWins ==
    \A j \in Idx :
        hist[j].ev = "setup" =>
            \A i \in 1..j-1 : hist[i].ev = "run" => hist[i].id <= hist[j].id

\* C3 (no overlapping execution): at most one setup or cleanup body has
\* been invoked and not yet settled.
NoOverlap == Cardinality(InFlight) <= 1

\* A body is in flight, a second effect was submitted meanwhile, and it is
\* not the first body this runner has run.
NoOverlapWitness ==
    /\ Cardinality(InFlight) = 1
    /\ Len(Bodies) >= 2
    /\ \E i \in InFlight : \E r \in i+1..Len(hist) : hist[r].ev = "run"

\* C4 (stop discards): an effect submitted and not yet set up when stop()
\* is called is never set up afterwards.
StopDiscards ==
    \A i \in Idx :
        hist[i].ev = "stop" =>
            \A r \in 1..i-1 :
                hist[r].ev = "run" =>
                    \A j \in i+1..Len(hist) :
                        ~(hist[j].ev = "setup" /\ hist[j].id = hist[r].id)

\* The runner is idle with nothing pending, nothing stored, and every
\* returned cleanup invoked.
Drained ==
    /\ Quiescent
    /\ lastEffect = NoEffect
    /\ ~stopRequested
    /\ currentCleanup = NoCleanup
    /\ ReturnedCleanup \subseteq CleanedUp

\* C5 (shutdown drains): if stop() is the last call and every body settles,
\* the runner eventually is drained.
ShutdownDrains == LastCallIs("stop", 0) ~> (~LastCallIs("stop", 0) \/ Drained)

\* stop() arrived while a cleanup was awaited on behalf of a newer effect,
\* and the runner has drained since.
ShutdownDrainsWitness ==
    /\ LastCallIs("stop", 0)
    /\ Drained
    /\ \E i \in 2..Len(hist) : hist[i].ev = "stop" /\ hist[i-1].ev = "cleanup"
    /\ Cardinality(CleanedUp) >= 2

\* C6 (no lost update): if run(T) is the last call and every body settles,
\* T's setup is eventually invoked.
NoLostUpdate ==
    \A t \in 1..MaxCalls :
        LastCallIs("run", t) ~> (~LastCallIs("run", t) \/ t \in Started)

\* run(T) arrived after the loop had returned and before its completion
\* callback ran; the callback restarted the loop and T was started.
NoLostUpdateWitness ==
    \E t \in 1..MaxCalls :
        /\ LastCallIs("run", t)
        /\ \E i \in 1..Len(hist)-2 :
            /\ hist[i] = Event("run", t, "-")
            /\ hist[i+1].ev = "finally"
            /\ hist[i+2] = Event("setup", t, "-")

\* C7 (shutdown symmetry): after run(A); stop() on a fresh runner the bodies
\* invoked are a prefix of <<setup A, cleanup A>>, and all of it once the
\* runner is quiescent (only the setup if A returned no cleanup).
ShutdownSymmetry ==
    (Len(Calls) = 2 /\ Calls[1].ev = "run" /\ Calls[2].ev = "stop") =>
        LET full == <<Event("setup", 1, "-"), Event("cleanup", 1, "-")>>
        IN  /\ Len(Bodies) <= 2
            /\ Bodies = SubSeq(full, 1, Len(Bodies))
            /\ 1 \in CleanedUp => 1 \in ReturnedCleanup
            /\ Quiescent => Len(Bodies) = (IF 1 \in ReturnedCleanup THEN 2 ELSE 1)

\* run(A); stop() ran to quiescence with stop() arriving before A's setup
\* settled, and A's cleanup was invoked.
ShutdownSymmetryWitness ==
    /\ Len(Calls) = 2 /\ Calls[1].ev = "run" /\ Calls[2].ev = "stop"
    /\ Quiescent
    /\ hist[3].ev = "stop"
    /\ Bodies = <<Event("setup", 1, "-"), Event("cleanup", 1, "-")>>

\* C8 (setup failure isolation): an effect whose setup failed never has a
\* cleanup stored or invoked; the stored cleanup, if any, is the one returned
\* by the most recently settled setup; and an effect submitted last after a
\* failure is still started.
SetupFailureSafe ==
    /\ SetupFailed \cap CleanedUp = {}
    /\ currentCleanup.id \notin SetupFailed
    /\ \A i \in Idx :
        (hist[i].ev = "setupDone" /\ hist[i].res = "fail"
            /\ \A k \in i+1..Len(hist) : hist[k].ev # "setupDone")
        => currentCleanup = NoCleanup
SetupFailureIsolation ==
    /\ []SetupFailureSafe
    /\ \A t \in 1..MaxCalls :
        (SetupFailed # {} /\ LastCallIs("run", t))
            ~> (~LastCallIs("run", t) \/ t \in Started)

\* A's setup failed, B was submitted and started, stop() then invoked B's
\* cleanup and nothing else.
SetupFailureIsolationWitness ==
    /\ 1 \in SetupFailed
    /\ 2 \in Started
    /\ LastCallIs("stop", 0)
    /\ CleanedUp = {2}
    /\ Quiescent

\* C9 (cleanup failure isolation): a cleanup is no longer stored once it has
\* been invoked and is invoked at most once; when an awaited cleanup fails the
\* loop goes on in the same step: the effect it has to start next (the
\* snapshot's, or the pending one after a stop iteration) has its setup invoked.
CleanupOnce ==
    /\ currentCleanup.id \notin CleanedUp
    /\ \A i, j \in Idx :
        (hist[i].ev = "cleanup" /\ hist[j].ev = "cleanup" /\ hist[i].id = hist[j].id)
            => i = j
CleanupFailureProceeds ==
    \A l \in 1..Len(loops) :
        (/\ loops[l].pc = "awaitCleanup"
         /\ Len(hist') > Len(hist)
         /\ hist'[Len(hist) + 1] = Event("cleanupDone", loops[l].fn.id, "fail"))
        => LET todo == IF loops[l].shouldStop THEN lastEffect ELSE loops[l].next
           IN  /\ todo # NoEffect =>
                     /\ Len(hist') >= Len(hist) + 2
                     /\ hist'[Len(hist) + 2] = Event("setup", todo.id, "-")
               /\ todo = NoEffect => loops'[l].pc = "finished"
CleanupFailureIsolation == []CleanupOnce /\ [][CleanupFailureProceeds]_vars

\* A's cleanup failed while B was pending, and B's setup was invoked next.
CleanupFailureIsolationWitness ==
    \E k \in Idx :
        /\ hist[k] = Event("cleanupDone", 1, "fail")
        /\ k < Len(hist)
        /\ hist[k+1] = Event("setup", 2, "-")

\* C10 (error reporting): the error sink holds exactly the failures that
\* occurred, each once and in order of occurrence, and only of bodies that
\* were invoked.
ErrorOf(e) == [kind |-> IF e.ev = "setupDone" THEN "setup" ELSE "cleanup", id |-> e.id]
ErrorReporting ==
    /\ errors = [i \in 1..Len(Failures) |-> ErrorOf(Failures[i])]
    /\ \A i \in 1..Len(errors) : errors[i].id \in Started

\* A cleanup failure and then a setup failure were reported, and an effect
\* that was superseded before it started has no report.
ErrorReportingWitness ==
    /\ Len(errors) = 2
    /\ errors[1].kind = "cleanup"
    /\ errors[2].kind = "setup"
    /\ \E t \in 1..NumRuns : t \notin Started /\ lastEffect.id # t
                             /\ \A l \in Live : loops[l].next.id # t

----------------------------------------------------------------------------
\* The first event the step appends to hist is of kind e.
StepIs(e) == Len(hist') > Len(hist) /\ hist'[Len(hist) + 1].ev = e
CallStep == StepIs("run") \/ StepIs("stop")
\* The bodies the step invoked.
NewBodies == {i \in Len(hist)+1..Len(hist') : IsBody(hist'[i])}

\* C11 (reusable after shutdown): a run(T) that finds the runner drained
\* after a serviced stop() restarts the loop and invokes T's setup in the
\* call; the runner never refuses work after a shutdown.
RestartAfterShutdown ==
    (LastCallIs("stop", 0) /\ Drained /\ StepIs("run")) =>
        /\ isLooping'
        /\ Len(loops') = Len(loops) + 1
        /\ Len(hist') >= Len(hist) + 2
        /\ hist'[Len(hist) + 2] = Event("setup", hist'[Len(hist) + 1].id, "-")
ReusableAfterShutdown == [][RestartAfterShutdown]_vars

\* A second round: stop() was serviced, then run(T) started T, and the next
\* stop() drained T's cleanup.
ReusableAfterShutdownWitness ==
    /\ Len(Calls) = 3
    /\ Calls[1].ev = "stop" /\ Calls[2].ev = "run" /\ Calls[3].ev = "stop"
    /\ hist[2].ev = "finally"
    /\ Bodies = <<Event("setup", 1, "-"), Event("cleanup", 1, "-")>>
    /\ Drained

\* C12 (calls only set flags), as stated: a run()/stop() step leaves
\* currentCleanup and the error sink unchanged and invokes no body.
CallsOnlySetFlagsStep ==
    CallStep => /\ currentCleanup' = currentCleanup
                /\ errors' = errors
                /\ NewBodies = {}
CallsOnlySetFlags == [][CallsOnlySetFlagsStep]_vars

\* C12 as the code has it: a call that finds the loop running only writes
\* lastEffect and stopRequested; a call that finds the runner idle sets
\* isLooping and runs the first iteration of loop() inside the call up to its
\* first await: the stored cleanup, if any, is cleared and invoked, and run()
\* invokes the submitted setup unless that cleanup is still pending.
CallFrameStep ==
    CallStep =>
        IF isLooping
        THEN /\ currentCleanup' = currentCleanup
             /\ isLooping'
             /\ loops' = loops
             /\ errors' = errors
             /\ Len(hist') = Len(hist) + 1
        ELSE /\ isLooping'
             /\ Len(loops') = Len(loops) + 1
             /\ currentCleanup # NoCleanup =>
                    /\ currentCleanup' = NoCleanup
                    /\ hist'[Len(hist) + 2] = Event("cleanup", currentCleanup.id, "-")
             /\ currentCleanup = NoCleanup =>
                    \A i \in NewBodies : hist'[i].ev # "cleanup"
             /\ StepIs("stop") => \A i \in NewBodies : hist'[i].ev # "setup"
             /\ (StepIs("run") /\ (currentCleanup = NoCleanup \/ currentCleanup.throws)) =>
                    \E i \in NewBodies :
                        hist'[i] = Event("setup", hist'[Len(hist) + 1].id, "-")
             /\ (StepIs("run") /\ currentCleanup # NoCleanup /\ ~currentCleanup.throws) =>
                    \A i \in NewBodies : hist'[i].ev # "setup"
CallFrame == [][CallFrameStep]_vars

\* run(A) on the idle runner invoked A's setup inside the call, and the last
\* call, made while the loop was suspended, only replaced the pending effect.
CallFrameWitness ==
    /\ Len(hist) >= 3
    /\ hist[1].ev = "run" /\ hist[2].ev = "setup"
    /\ hist[Len(hist)].ev = "run"
    /\ lastEffect.id = hist[Len(hist)].id
    /\ isLooping

\* C13 (loop mutual exclusion, I1): at most one activation of loop() has
\* been started and has not had its completion callback run, and isLooping
\* is true exactly while there is one.
LoopMutex ==
    /\ Cardinality(Live) <= 1
    /\ isLooping <=> Live # {}

\* A call arrived after the loop had returned and before its completion
\* callback ran; the callback restarted the loop, and again only one
\* activation is live.
LoopMutexWitness ==
    /\ Cardinality(Live) = 1
    /\ Len(loops) >= 2
    /\ \E i \in 1..Len(hist)-1 : IsCall(hist[i]) /\ hist[i+1].ev = "finally"
    /\ \E l \in Live : loops[l].pc \in {"awaitSetup", "awaitCleanup"}

\* C14 (currentCleanup discipline, I2): a stored cleanup was returned by a
\* completed setup and has not been invoked; only returned cleanups are
\* invoked, each at most once.
NumCleanups(t) == Cardinality({i \in Idx : hist[i] = Event("cleanup", t, "-")})
CleanupDiscipline ==
    /\ currentCleanup # NoCleanup =>
          /\ currentCleanup.id \in ReturnedCleanup
          /\ NumCleanups(currentCleanup.id) = 0
    /\ CleanedUp \subseteq ReturnedCleanup
    /\ \A t \in ReturnedCleanup : NumCleanups(t) <= 1

\* The cleanup of a second effect is stored after the first effect's cleanup
\* was stored, taken and invoked.
CleanupDisciplineWitness ==
    /\ currentCleanup.id = 2
    /\ NumCleanups(1) = 1
    /\ ReturnedCleanup = {1, 2}

\* The phase of the runner: a setup in flight, a cleanup in flight, or no
\* activation of loop() suspended at an await.
Phase ==
    IF \E l \in Live : loops[l].pc = "awaitSetup" THEN "SettingUp"
    ELSE IF \E l \in Live : loops[l].pc = "awaitCleanup" THEN "CleaningUp"
    ELSE "Idle"
Pending == stopRequested \/ lastEffect # NoEffect
\* The first event of the step is the settling of a setup with result r.
SetupSettledWith(r) == StepIs("setupDone") /\ hist'[Len(hist) + 1].res = r
\* What the loop suspended at a cleanup has to start once the cleanup settles.
Todo ==
    LET l == CHOOSE k \in Live : loops[k].pc = "awaitCleanup"
    IN  IF loops[l].shouldStop THEN lastEffect ELSE loops[l].next

\* C15 (state machine view), as stated: every phase change is Idle to
\* SettingUp on submit, SettingUp to CleaningUp when setup yields a cleanup,
\* SettingUp to the re-check (Idle) when it yields none, CleaningUp to
\* SettingUp, or CleaningUp to Idle.
StatedPhaseStep ==
    Phase' # Phase =>
        \/ Phase = "Idle" /\ Phase' = "SettingUp" /\ (StepIs("run") \/ StepIs("finally"))
        \/ Phase = "SettingUp" /\ Phase' = "CleaningUp" /\ SetupSettledWith("cleanup")
        \/ Phase = "SettingUp" /\ Phase' = "Idle" /\ ~SetupSettledWith("cleanup")
        \/ Phase = "CleaningUp" /\ Phase' = "SettingUp"
        \/ Phase = "CleaningUp" /\ Phase' = "Idle"
StatedStateMachine == [][StatedPhaseStep]_vars

\* C15 as the code has it: a yielded cleanup stays stored while the runner
\* is idle and is run by the next call, so Idle also leads to CleaningUp and
\* SettingUp leads to CleaningUp only when something is pending.
PhaseStep ==
    Phase' # Phase =>
        \/ /\ Phase = "Idle" /\ Phase' = "SettingUp"
           /\ StepIs("run") \/ StepIs("finally")
           /\ currentCleanup = NoCleanup \/ currentCleanup.throws
        \/ /\ Phase = "Idle" /\ Phase' = "CleaningUp"
           /\ StepIs("run") \/ StepIs("stop") \/ StepIs("finally")
           /\ currentCleanup # NoCleanup /\ ~currentCleanup.throws
        \/ /\ Phase = "SettingUp" /\ Phase' = "CleaningUp"
           /\ SetupSettledWith("cleanup")
           /\ Pending
        \/ /\ Phase = "SettingUp" /\ Phase' = "Idle"
           /\ StepIs("setupDone")
           /\ SetupSettledWith("cleanup") /\ Pending => currentCleanup' = NoCleanup
        \/ /\ Phase = "CleaningUp" /\ Phase' = "SettingUp"
           /\ StepIs("cleanupDone")
           /\ Todo # NoEffect
        \/ /\ Phase = "CleaningUp" /\ Phase' = "Idle"
           /\ StepIs("cleanupDone")
           /\ Todo = NoEffect \/ Todo.throws
StateMachine == [][PhaseStep]_vars

\* The runner went idle with A's cleanup stored, and the next call took it
\* from Idle to CleaningUp.
StateMachineWitness ==
    /\ Phase = "CleaningUp"
    /\ Len(hist) >= 5
    /\ hist[Len(hist)] = Event("cleanup", 1, "-")
    /\ IsCall(hist[Len(hist) - 1])
    /\ hist[Len(hist) - 2].ev = "finally"

\* Running state s to quiescence with no further call: the loop's steps are
\* taken in the only order possible, the bodies settling as o prescribes
\* (o.outcome and o.cthrows for a setup, o.okIds for the cleanups that succeed).
RECURSIVE Drain(_, _)
Drain(s, o) ==
    LET susp == {l \in 1..Len(s.loops) :
                    s.loops[l].pc \in {"awaitSetup", "awaitCleanup", "finished"}}
    IN  IF susp = {} THEN s
        ELSE LET l == CHOOSE k \in susp : TRUE
                 f == s.loops[l]
             IN  Drain(CASE f.pc = "awaitSetup" ->
                                ResumeSetup(s, l, o.outcome, Cleanup(f.next.id, o.cthrows))
                         [] f.pc = "awaitCleanup" ->
                                ResumeCleanup(s, l, f.fn.id \in o.okIds)
                         [] OTHER -> Finally(s, l),
                       o)

\* The cleanups that can still be awaited from the current state on.
OpenIds ==
    ({currentCleanup.id} \cup {loops[l].fn.id : l \in Live}
                         \cup {loops[l].next.id : l \in Live}) \ {0}
Oracles == [outcome : SetupOutcomes, cthrows : BOOLEAN, okIds : SUBSET OpenIds]

\* What a run leaves behind: the runner's variables, the bodies invoked and
\* settled in order, and the errors reported.
IsBodyEvent(e) == e.ev \in {"setup", "setupDone", "cleanup", "cleanupDone"}
Outcome(s) ==
    [lastEffect |-> s.lastEffect, stopRequested |-> s.stopRequested,
     currentCleanup |-> s.currentCleanup, isLooping |-> s.isLooping,
     events |-> SelectSeq(s.hist, IsBodyEvent), errors |-> s.errors]

\* C16 (stop is idempotent): wherever the runner is after a stop() with no
\* run() since, a second stop() leads to the same bodies invoked and settled
\* and the same final state as no second stop(); and stop() on an idle runner
\* with nothing stored invokes nothing and returns to idle.
StopIdempotent ==
    /\ LastCallIs("stop", 0) =>
          \A o \in Oracles : Outcome(Drain(StopCall(St), o)) = Outcome(Drain(St, o))
    /\ (Quiescent /\ currentCleanup = NoCleanup) =>
          \A o \in Oracles : Outcome(Drain(StopCall(St), o)) = Outcome(St)

\* stop() was called twice in a row, the second time while the cleanup
\* started by the first was pending; the cleanup ran once and the runner is
\* drained.
StopIdempotentWitness ==
    /\ Len(Calls) = 3
    /\ Calls[2].ev = "stop" /\ Calls[3].ev = "stop"
    /\ \E i \in 2..Len(hist) : hist[i].ev = "stop" /\ hist[i-1] = Event("cleanup", 1, "-")
    /\ NumCleanups(1) = 1
    /\ Drained

\* C17 (stop and effect never pending together): stopRequested is false or
\* lastEffect is null, and no iteration's snapshot holds both a stop and an
\* effect.
StopXorEffect ==
    /\ ~(stopRequested /\ lastEffect # NoEffect)
    /\ \A l \in Live :
        loops[l].pc \in {"awaitSetup", "awaitCleanup"} =>
            ~(loops[l].shouldStop /\ loops[l].next # NoEffect)

\* While the loop was suspended a stop() was requested and then overwritten
\* by a run(): the effect is pending and the stop request is gone.
StopXorEffectWitness ==
    /\ Len(hist) >= 2
    /\ hist[Len(hist) - 1].ev = "stop"
    /\ hist[Len(hist)].ev = "run"
    /\ lastEffect.id = hist[Len(hist)].id
    /\ ~stopRequested
    /\ Phase # "Idle"

\* C18 (no lost wakeup): between steps, when isLooping is false nothing is
\* pending in stopRequested or lastEffect.
NoLostWakeup == ~isLooping => (~stopRequested /\ lastEffect = NoEffect)

\* The runner is idle after a completion callback that found a call made
\* since the loop returned, restarted the loop and let it consume the call.
NoLostWakeupWitness ==
    /\ ~isLooping
    /\ Len(loops) >= 2
    /\ \E i \in 1..Len(hist)-1 : IsCall(hist[i]) /\ hist[i+1].ev = "finally"

\* C19 (no leaked cleanup): while a setup is in flight nothing is stored in
\* currentCleanup; at most one returned cleanup is not yet invoked; and a
\* cleanup is invoked only when the most recently settled setup returned it.
NoLeakedCleanup ==
    /\ Phase = "SettingUp" => currentCleanup = NoCleanup
    /\ CleanedUp \subseteq ReturnedCleanup
    /\ Cardinality(ReturnedCleanup \ CleanedUp) <= 1
    /\ \A j \in Idx :
        hist[j].ev = "cleanup" =>
            \E i \in 1..j-1 :
                /\ hist[i] = Event("setupDone", hist[j].id, "cleanup")
                /\ \A k \in i+1..j-1 : hist[k].ev # "setupDone"

\* B's setup is in flight after A's cleanup was invoked and settled.
NoLeakedCleanupWitness ==
    /\ Phase = "SettingUp"
    /\ ReturnedCleanup = {1}
    /\ \E k \in Idx : hist[k].ev = "cleanupDone" /\ hist[k].id = 1
    /\ hist[Len(hist)].ev = "setup"

\* Effects waiting to be started: in the pending slot, or in the snapshot of
\* an iteration that is awaiting the previous cleanup.
PendingIds ==
    {lastEffect.id} \cup
    {loops[l].next.id : l \in {k \in Live : loops[k].pc = "awaitCleanup"
                                            /\ ~loops[k].shouldStop}}
\* Effects submitted, never started and no longer waiting.
Dropped == {t \in 1..NumRuns : t \notin Started /\ t \notin PendingIds}

\* C20 (replaced before the snapshot): a call that finds an effect in the
\* pending slot drops it, and a dropped effect is never started; of the
\* effects submitted while one setup is in flight only the last can ever start.
ReplacedStep ==
    /\ (CallStep /\ lastEffect # NoEffect) => lastEffect.id \in Dropped'
    /\ Dropped \subseteq Dropped'
OnlyLastOfWindow ==
    \A i \in Idx :
        hist[i].ev = "setup" =>
            \A r1, r2 \in i+1..Len(hist) :
                (/\ r1 < r2
                 /\ hist[r1].ev = "run" /\ hist[r2].ev = "run"
                 /\ \A k \in i+1..r2 : ~(hist[k].ev = "setupDone" /\ hist[k].id = hist[i].id))
                => hist[r1].id \notin Started
ReplacedNeverStarts == []OnlyLastOfWindow /\ [][ReplacedStep]_vars

\* B and then C were submitted while A's setup was in flight; C was started
\* and B never was.
ReplacedNeverStartsWitness ==
    /\ Started = {1, 3}
    /\ 2 \in Dropped
    /\ \E i, k \in Idx :
        /\ hist[i] = Event("setup", 1, "-")
        /\ hist[k].ev = "setupDone" /\ hist[k].id = 1
        /\ \E r1, r2 \in i+1..k-1 :
            r1 < r2 /\ hist[r1] = Event("run", 2, "-") /\ hist[r2] = Event("run", 3, "-")

====
